---- MODULE Spec2Model ----
(***************************************************************************)
(* A model of the JSON:API frontend client: the routes feed pagination     *)
(* (src/src/routes.ts), the media normalizer (src/src/media.ts) and the    *)
(* file URL helpers (src/src/url.ts).                                      *)
(*                                                                         *)
(* Strings the code inspects character by character are sequences of      *)
(* one-character strings.  JavaScript values are records tagged by t.      *)
(***************************************************************************)
EXTENDS Integers, Sequences, FiniteSets, TLC

VARIABLES
    base,        \* the configured base URL of the feed (options.baseUrl)
    maxPages,    \* options.maxPages of iterateRoutes, -1 when not given
    consumer,    \* who drives the generator: "collectRoutes" or "manual"
    gen,         \* the generator: suspendedStart, awaitingFetch, suspendedYield, completed
    error,       \* the error the generator threw, "none" when it did not
    i,           \* the loop counter of iterateRoutes
    pageUrl,     \* the local pageUrl of iterateRoutes
    page,        \* the page the for-of loop is walking: [data, next]
    idx,         \* the position of the for-of loop in page.data
    demand,      \* a next() call of the consumer is not answered yet
    abandoned,   \* the consumer called return() on the generator
    delivered,   \* the items the consumer received, in order
    fetchLog,    \* every URL handed to the transport, in order
    results,     \* every response the transport resolved with and what fetchRoutesPage made of it
    outstanding, \* the fetches issued and not answered yet
    call         \* the call of a pure function under check: its arguments and result

routeVars == <<base, maxPages, consumer, gen, error, i, pageUrl, page, idx, demand,
               abandoned, delivered, fetchLog, results, outstanding>>
vars == <<base, maxPages, consumer, gen, error, i, pageUrl, page, idx, demand,
          abandoned, delivered, fetchLog, results, outstanding, call>>

(***************************************************************************)
(* Strings                                                                 *)
(***************************************************************************)
IsWhitespace(c) == c \in {" ", "\t", "\n"}

RECURSIVE TrimStart(_)
TrimStart(s) ==
    IF s = <<>> THEN <<>>
    ELSE IF IsWhitespace(Head(s)) THEN TrimStart(Tail(s)) ELSE s

RECURSIVE TrimEnd(_)
TrimEnd(s) ==
    IF s = <<>> THEN <<>>
    ELSE IF IsWhitespace(s[Len(s)]) THEN TrimEnd(SubSeq(s, 1, Len(s) - 1)) ELSE s

Trim(s) == TrimEnd(TrimStart(s))

StartsWith(s, p) == Len(s) >= Len(p) /\ SubSeq(s, 1, Len(p)) = p

\* String.prototype.indexOf: the first position (from 0) where sub occurs, or -1.
IndexOf(s, sub) ==
    LET hits == {k \in 0..(Len(s) - Len(sub)) : SubSeq(s, k + 1, k + Len(sub)) = sub}
    IN  IF hits = {} THEN -1 ELSE CHOOSE k \in hits : \A m \in hits : k <= m

Includes(s, sub) == IndexOf(s, sub) # -1

\* String.prototype.slice(from) and slice(0, to), positions from 0.
SliceFrom(s, from) == SubSeq(s, from + 1, Len(s))
SliceTo(s, to) == SubSeq(s, 1, to)

(***************************************************************************)
(* JavaScript values                                                       *)
(***************************************************************************)
Undefined == [t |-> "undefined"]
Null == [t |-> "null"]
Str(s) == [t |-> "string", s |-> s]
Num(n) == [t |-> "number", n |-> n]

IsString(v) == v.t = "string"

\* The value is a string whose trimmed text is not empty.
IsNonBlankString(v) == IsString(v) /\ Trim(v.s) # <<>>

(***************************************************************************)
(* Route items (routes.ts, normalizeRoutesItem)                            *)
(***************************************************************************)
EntityKind == <<"e", "n", "t", "i", "t", "y">>
ViewKind == <<"v", "i", "e", "w">>

\* A raw item of the feed: an object whose missing members read as undefined.
RawItem(path, kind, jsonapi_url, data_url) ==
    [t |-> "object", path |-> path, kind |-> kind,
     jsonapi_url |-> jsonapi_url, data_url |-> data_url]

\* routes.ts 22-47.  `!value || typeof value !== "object"` lets only objects through.
normalizeRoutesItem(value) ==
    IF value.t # "object" THEN Null
    ELSE IF ~IsString(value.path) \/ Trim(value.path.s) = <<>>
            \/ ~StartsWith(value.path.s, <<"/">>) THEN Null
    ELSE IF value.kind # Str(EntityKind) /\ value.kind # Str(ViewKind) THEN Null
    ELSE IF value.kind = Str(EntityKind) THEN
        IF ~IsNonBlankString(value.jsonapi_url) THEN Null
        ELSE IF value.data_url # Null THEN Null
        ELSE RawItem(value.path, value.kind, value.jsonapi_url, Null)
    ELSE
        IF ~IsNonBlankString(value.data_url) THEN Null
        ELSE IF value.jsonapi_url # Null THEN Null
        ELSE RawItem(value.path, value.kind, Null, value.data_url)

\* rawItems.map(normalizeRoutesItem).filter(v => v !== null), routes.ts 132.
RECURSIVE NormalizeItems(_)
NormalizeItems(raw) ==
    IF raw = <<>> THEN <<>>
    ELSE LET n == normalizeRoutesItem(Head(raw))
         IN  IF n = Null THEN NormalizeItems(Tail(raw))
             ELSE <<n>> \o NormalizeItems(Tail(raw))

(***************************************************************************)
(* URLs (routes.ts, buildRoutesUrl).  A URL string is kept in the parts    *)
(* `new URL` reads from it: its form, scheme, host, port and path.         *)
(*   abs   scheme://host[:port]path                                        *)
(*   net   //host[:port]path          (the scheme comes from the base)     *)
(*   path  /path                      (scheme, host, port from the base)   *)
(*   blob  blob:scheme://host[:port]/id                                    *)
(*   bad   a string `new URL` throws a TypeError for                       *)
(***************************************************************************)
UrlString(form, scheme, host, port, path) ==
    [form |-> form, scheme |-> scheme, host |-> host, port |-> port, path |-> path]

\* No string at all: the `undefined` of options.url and of pageUrl.
NoUrl == UrlString("undefined", "", "", "", "")

DefaultPort(scheme) ==
    CASE scheme = "http" -> "80"
      [] scheme = "https" -> "443"
      [] scheme = "ftp" -> "21"
      [] OTHER -> ""

\* The URL parser drops a port that is the scheme's default.
NormalPort(scheme, port) == IF port = DefaultPort(scheme) THEN "" ELSE port

\* new URL(input, base): base is a parsed URL, or NoUrl for new URL(input).
\* The result has an `inner` origin for blob: URLs; valid is FALSE for a TypeError.
ParseUrl(input, baseUrl) ==
    CASE input.form = "abs" ->
            [valid |-> TRUE, scheme |-> input.scheme, host |-> input.host,
             port |-> NormalPort(input.scheme, input.port), path |-> input.path,
             inner |-> <<>>]
      [] input.form = "blob" ->
            [valid |-> TRUE, scheme |-> "blob", host |-> "", port |-> "",
             path |-> input.path,
             inner |-> <<input.scheme, input.host, NormalPort(input.scheme, input.port)>>]
      [] input.form = "net" /\ baseUrl.valid ->
            [valid |-> TRUE, scheme |-> baseUrl.scheme, host |-> input.host,
             port |-> NormalPort(baseUrl.scheme, input.port), path |-> input.path,
             inner |-> <<>>]
      [] input.form = "path" /\ baseUrl.valid ->
            [valid |-> TRUE, scheme |-> baseUrl.scheme, host |-> baseUrl.host,
             port |-> baseUrl.port, path |-> input.path, inner |-> <<>>]
      [] OTHER ->
            [valid |-> FALSE, scheme |-> "", host |-> "", port |-> "", path |-> "",
             inner |-> <<>>]

InvalidUrl == ParseUrl(NoUrl, NoUrl)

\* URL.origin: a (scheme, host, port) triple for http, https and ftp, the origin
\* of the inner URL for blob:, and the opaque origin "null" for anything else.
Origin(url) ==
    CASE url.scheme \in {"http", "https", "ftp"} -> <<url.scheme, url.host, url.port>>
      [] url.scheme = "blob" /\ url.inner # <<>> -> url.inner
      [] OTHER -> <<"null", "", "">>

\* buildRoutesUrl without its origin check.
buildRoutesUrl_NoOriginCheck(input, baseString) ==
    LET baseUrl == ParseUrl(baseString, InvalidUrl)
        url == ParseUrl(input, baseUrl)
    IN  IF ~baseUrl.valid \/ ~url.valid THEN [error |-> "TypeError", url |-> InvalidUrl]
        ELSE IF url.scheme # "http" /\ url.scheme # "https"
            THEN [error |-> "protocol", url |-> InvalidUrl]
        ELSE [error |-> "none", url |-> url]

\* routes.ts 4-20.  The result is the URL, or the error thrown.
buildRoutesUrl(input, baseString) ==
    LET baseUrl == ParseUrl(baseString, InvalidUrl)
        url == ParseUrl(input, baseUrl)
    IN  IF ~baseUrl.valid \/ ~url.valid THEN [error |-> "TypeError", url |-> InvalidUrl]
        ELSE IF Origin(url) # Origin(baseUrl)
            THEN [error |-> "origin", url |-> InvalidUrl]
        ELSE IF url.scheme # "http" /\ url.scheme # "https"
            THEN [error |-> "protocol", url |-> InvalidUrl]
        ELSE [error |-> "none", url |-> url]

\* routes.ts 87-97: the cursor when there is one, else the first page of the feed.
FirstPagePath == "/jsonapi/routes?_format=json&page[limit]=50"

RequestUrl(url, baseString) ==
    IF url # NoUrl THEN buildRoutesUrl(url, baseString)
    ELSE LET u == buildRoutesUrl(UrlString("path", "", "", "", "/jsonapi/routes"), baseString)
         IN  IF u.error # "none" THEN u
             ELSE [u EXCEPT !.url.path = FirstPagePath]

(***************************************************************************)
(* One page of the feed (routes.ts, getNextLink and fetchRoutesPage)       *)
(***************************************************************************)
\* The `next` member of `links`: t is its JavaScript type; a string is blank
\* (whitespace only) or the URL string `url`.
LinkValue(t, blank, url) == [t |-> t, blank |-> blank, url |-> url]

\* `links`: absent, or an object with a `next` member.
Links(t, next) == [t |-> t, next |-> next]

NoLinks == Links("undefined", LinkValue("undefined", FALSE, NoUrl))

\* routes.ts 49-53.  NoUrl stands for the null the code returns.
getNextLink(links) ==
    IF links.t # "object" THEN NoUrl
    ELSE IF links.next.t = "string" /\ ~links.next.blank THEN links.next.url
    ELSE NoUrl

\* A response of the transport: res.ok, what res.json() gives ("invalid" when it
\* rejects), and for a document its `data` (t is its type, items its elements
\* when it is an array) and its `links`.
Response(ok, json, dataType, items, links) ==
    [ok |-> ok, json |-> json, data |-> [t |-> dataType, items |-> items], links |-> links]

\* The transport's promise rejects (a network error): there is no response.
Rejection == Response(FALSE, "rejected", "undefined", <<>>, NoLinks)

PageOutcome(err, data, next) == [error |-> err, data |-> data, next |-> next]

\* routes.ts 119-144: fetchRoutesPage from the transport's response on.  An array
\* document is an object without `data` and `links`.
fetchRoutesPageResult(res) ==
    IF res = Rejection THEN PageOutcome("transport", <<>>, NoUrl)
    ELSE IF ~res.ok THEN PageOutcome("request", <<>>, NoUrl)
    ELSE IF res.json = "invalid" THEN PageOutcome("json", <<>>, NoUrl)
    ELSE IF res.json \in {"null", "string", "number"} THEN PageOutcome("format", <<>>, NoUrl)
    ELSE IF res.json = "array" THEN PageOutcome("none", <<>>, NoUrl)
    ELSE LET rawItems == IF res.data.t = "array" THEN res.data.items ELSE <<>>
         IN  PageOutcome("none", NormalizeItems(rawItems), getNextLink(res.links))

(***************************************************************************)
(* The generator (routes.ts, iterateRoutes) and its consumer               *)
(***************************************************************************)
DefaultMaxPages == 10000

\* options.maxPages ?? 10_000
EffectiveMaxPages(option) == IF option.t = "number" THEN option.n ELSE DefaultMaxPages

Page(data, next) == [data |-> data, next |-> next]
NoPage == Page(<<>>, NoUrl)

\* Where the generator is after running to its next suspension point, with the
\* fetch it issued and the item it yielded on the way (each at most one).
GenStep(g, e, iv, url, pg, ix, issued, yielded) ==
    [gen |-> g, error |-> e, i |-> iv, pageUrl |-> url, page |-> pg, idx |-> ix,
     issued |-> issued, yielded |-> yielded]

\* LoopTop with the loop bound off by one (i <= maxPages).
LoopTop_OffByOne(iv, url, limit, baseString) ==
    IF iv <= limit THEN
        LET r == RequestUrl(url, baseString)
        IN  IF r.error = "none"
                THEN GenStep("awaitingFetch", "none", iv, url, NoPage, 0, <<r.url>>, <<>>)
                ELSE GenStep("completed", r.error, iv, url, NoPage, 0, <<>>, <<>>)
    ELSE GenStep("completed", "overrun", iv, url, NoPage, 0, <<>>, <<>>)

\* routes.ts 156-157 and 168: the top of the loop with counter iv and cursor url.
\* The fetch is issued when the URL passes buildRoutesUrl.
LoopTop(iv, url, limit, baseString) ==
    IF iv < limit THEN
        LET r == RequestUrl(url, baseString)
        IN  IF r.error = "none"
                THEN GenStep("awaitingFetch", "none", iv, url, NoPage, 0, <<r.url>>, <<>>)
                ELSE GenStep("completed", r.error, iv, url, NoPage, 0, <<>>, <<>>)
    ELSE GenStep("completed", "overrun", iv, url, NoPage, 0, <<>>, <<>>)

\* Continue walking the page from its end.
Continue_Reversed(pg, ix, iv, url, limit, baseString) ==
    IF ix < Len(pg.data)
        THEN GenStep("suspendedYield", "none", iv, url, pg, ix + 1, <<>>,
                     <<pg.data[Len(pg.data) - ix]>>)
    ELSE IF pg.next = NoUrl
        THEN GenStep("completed", "none", iv, url, pg, ix, <<>>, <<>>)
    ELSE LoopTop(iv + 1, pg.next, limit, baseString)

\* Continue fetching the next page together with the yield of a page's last item.
Continue_Prefetch(pg, ix, iv, url, limit, baseString) ==
    IF ix < Len(pg.data) THEN
        IF ix + 1 = Len(pg.data) /\ pg.next # NoUrl
            THEN [LoopTop(iv + 1, pg.next, limit, baseString)
                    EXCEPT !.yielded = <<pg.data[ix + 1]>>]
            ELSE GenStep("suspendedYield", "none", iv, url, pg, ix + 1, <<>>,
                         <<pg.data[ix + 1]>>)
    ELSE IF pg.next = NoUrl
        THEN GenStep("completed", "none", iv, url, pg, ix, <<>>, <<>>)
    ELSE LoopTop(iv + 1, pg.next, limit, baseString)

\* routes.ts 159-165: the for-of loop over page.data after ix items, then the
\* `next` link: return when there is none, else the next round of the loop.
Continue(pg, ix, iv, url, limit, baseString) ==
    IF ix < Len(pg.data)
        THEN GenStep("suspendedYield", "none", iv, url, pg, ix + 1, <<>>, <<pg.data[ix + 1]>>)
    ELSE IF pg.next = NoUrl
        THEN GenStep("completed", "none", iv, url, pg, ix, <<>>, <<>>)
    ELSE LoopTop(iv + 1, pg.next, limit, baseString)

Suspended == gen \in {"suspendedStart", "suspendedYield"}

\* The generator moves to st after `answered` fetches were answered.  The next()
\* call `wanting` is answered by a yield, by the return and by the throw.
Resume(st, answered, wanting) ==
    /\ gen' = st.gen
    /\ error' = st.error
    /\ i' = st.i
    /\ pageUrl' = st.pageUrl
    /\ page' = st.page
    /\ idx' = st.idx
    /\ fetchLog' = fetchLog \o st.issued
    /\ outstanding' = outstanding - answered + Len(st.issued)
    /\ delivered' = delivered \o st.yielded
    /\ demand' = (wanting /\ st.yielded = <<>> /\ st.gen # "completed")

(***************************************************************************)
(* The feeds and configurations the model runs over                        *)
(***************************************************************************)
MaxPagesBound == 3
MaxChain == 3

CmsHost == "cms.example.com"
EvilHost == "evil.example.com"

Bases == {UrlString("abs", "https", CmsHost, "", ""),
          UrlString("abs", "http", CmsHost, "8080", "")}

MaxPagesOptions == {Undefined} \cup {Num(n) : n \in 0..MaxPagesBound}

ItemA == RawItem(Str(<<"/", "a">>), Str(EntityKind), Str(<<"/", "j", "a">>), Null)
ItemB == RawItem(Str(<<"/", "b">>), Str(ViewKind), Null, Str(<<"/", "d", "b">>))
ItemC == RawItem(Str(<<"/", "c">>), Str(EntityKind), Str(<<"/", "j", "c">>), Null)
\* An entity item that carries both URLs: dropped by normalizeRoutesItem.
ItemX == RawItem(Str(<<"/", "x">>), Str(EntityKind), Str(<<"/", "j", "x">>),
                 Str(<<"/", "d", "x">>))

NextPath == UrlString("path", "", "", "", "/jsonapi/routes?page=2")
NextAbsolute == UrlString("abs", "https", CmsHost, "443", "/jsonapi/routes?page=2")
NextUrls ==
    {NextPath, NextAbsolute,
     UrlString("abs", "http", CmsHost, "8080", "/jsonapi/routes?page=2"),
     UrlString("abs", "https", EvilHost, "", "/x"),
     UrlString("net", "", EvilHost, "", "/x"),
     UrlString("abs", "https", CmsHost, "8443", "/x"),
     UrlString("abs", "ftp", CmsHost, "", "/x"),
     UrlString("blob", "https", CmsHost, "", "/uuid"),
     UrlString("bad", "", "", "", "")}

NoNextValues ==
    {LinkValue("undefined", FALSE, NoUrl), LinkValue("null", FALSE, NoUrl),
     LinkValue("string", TRUE, NoUrl), LinkValue("object", FALSE, NoUrl)}

PageData == {<<ItemA, ItemB>>, <<ItemX, ItemC>>, <<ItemX>>}

Responses ==
    \* well-formed pages: the last one of a feed, or one with a same-origin cursor
    {Response(TRUE, "object", "array", d, l) :
        d \in PageData,
        l \in {NoLinks, Links("object", LinkValue("null", FALSE, NoUrl)),
               Links("object", LinkValue("string", FALSE, NextPath)),
               Links("object", LinkValue("string", FALSE, NextAbsolute))}}
    \* every other `next` a server can send
    \cup {Response(TRUE, "object", "array", <<ItemA, ItemB>>, Links("object", n)) :
            n \in NoNextValues \cup {LinkValue("string", FALSE, u) : u \in NextUrls}}
    \* documents whose `data` is not an array
    \cup {Response(TRUE, "object", t, <<>>, NoLinks) :
            t \in {"undefined", "null", "object", "string"}}
    \cup {Response(TRUE, "object", "undefined", <<>>,
                   Links("object", LinkValue("string", FALSE, NextPath)))}
    \* bodies that are no JSON object, and bodies that are no JSON
    \cup {Response(TRUE, j, "undefined", <<>>, NoLinks) :
            j \in {"array", "null", "string", "number", "invalid"}}
    \* a non-success status, and no response at all
    \cup {Response(FALSE, "object", "undefined", <<>>, NoLinks), Rejection}

NoCall == [fn |-> "none"]

(***************************************************************************)
(* The routes feed: iterateRoutes driven by collectRoutes or by hand       *)
(***************************************************************************)
InitRoutes ==
    /\ base \in Bases
    /\ maxPages \in MaxPagesOptions
    /\ consumer \in {"collectRoutes", "manual"}
    /\ gen = "suspendedStart"
    /\ error = "none"
    /\ i = 0
    /\ pageUrl = NoUrl
    /\ page = NoPage
    /\ idx = 0
    /\ demand = FALSE
    /\ abandoned = FALSE
    /\ delivered = <<>>
    /\ fetchLog = <<>>
    /\ results = <<>>
    /\ outstanding = 0
    /\ call = NoCall

\* The consumer calls next(): the generator runs to its next suspension point.
\* collectRoutes does so from its for-await loop (routes.ts 178-180).
ConsumerNext ==
    /\ Suspended
    /\ ~demand
    /\ Resume(IF gen = "suspendedStart"
                THEN LoopTop(0, NoUrl, EffectiveMaxPages(maxPages), base)
                ELSE Continue(page, idx, i, pageUrl, EffectiveMaxPages(maxPages), base),
              0, TRUE)
    /\ UNCHANGED <<base, maxPages, consumer, abandoned, results, call>>

\* FetchResponse with a retry: a failed fetch is issued once more.
FetchResponse_Retry ==
    /\ gen = "awaitingFetch"
    /\ \E res \in Responses :
        LET out == fetchRoutesPageResult(res)
        IN  /\ out.next # NoUrl => Len(results) < MaxChain
            /\ results' = Append(results, [response |-> res, outcome |-> out])
            /\ Resume(IF out.error # "none" /\ Len(results) < MaxChain
                        THEN GenStep("awaitingFetch", "none", i, pageUrl, NoPage, 0,
                                     <<fetchLog[Len(fetchLog)]>>, <<>>)
                      ELSE IF out.error # "none"
                        THEN GenStep("completed", out.error, i, pageUrl, NoPage, 0, <<>>, <<>>)
                        ELSE Continue(Page(out.data, out.next), 0, i, pageUrl,
                                      EffectiveMaxPages(maxPages), base),
                      1, demand)
    /\ UNCHANGED <<base, maxPages, consumer, abandoned, call>>

\* The transport answers the fetch the generator waits for (routes.ts 119): the
\* rest of fetchRoutesPage runs, then the generator up to its next suspension.
\* The server offers a cursor on at most MaxChain pages.
FetchResponse ==
    /\ gen = "awaitingFetch"
    /\ \E res \in Responses :
        LET out == fetchRoutesPageResult(res)
        IN  /\ out.next # NoUrl => Len(results) < MaxChain
            /\ results' = Append(results, [response |-> res, outcome |-> out])
            /\ Resume(IF out.error # "none"
                        THEN GenStep("completed", out.error, i, pageUrl, NoPage, 0, <<>>, <<>>)
                        ELSE Continue(Page(out.data, out.next), 0, i, pageUrl,
                                      EffectiveMaxPages(maxPages), base),
                      1, demand)
    /\ UNCHANGED <<base, maxPages, consumer, abandoned, call>>

\* The consumer abandons the sequence (a break out of for-await, or return()):
\* the suspended generator completes.  collectRoutes never does.
ConsumerReturn ==
    /\ consumer = "manual"
    /\ Suspended
    /\ ~demand
    /\ gen' = "completed"
    /\ abandoned' = TRUE
    /\ UNCHANGED <<base, maxPages, consumer, error, i, pageUrl, page, idx, demand,
                   delivered, fetchLog, results, outstanding, call>>

NextRoutes == ConsumerNext \/ FetchResponse \/ ConsumerReturn

Spec == InitRoutes /\ [][NextRoutes]_vars

(***************************************************************************)
(* Properties of the routes feed                                           *)
(***************************************************************************)
BaseUrl == ParseUrl(base, InvalidUrl)

\* The generator ended by its own return or throw, not by the consumer's return().
Finished == gen = "completed" /\ ~abandoned

Limit == EffectiveMaxPages(maxPages)

\* Page k arrived and is a page (fetchRoutesPage returned it).
IsPage(k) == results[k].outcome.error = "none"
HasNext(k) == IsPage(k) /\ results[k].outcome.next # NoUrl

\* The items a response carries once normalized: those of its `data` array.
ItemsOf(res) ==
    IF res.ok /\ res.json = "object" /\ res.data.t = "array"
        THEN NormalizeItems(res.data.items) ELSE <<>>

\* The items of the first n responses of rs, page after page.
RECURSIVE ItemsUpTo(_, _)
ItemsUpTo(rs, n) ==
    IF n <= 0 THEN <<>> ELSE ItemsUpTo(rs, n - 1) \o ItemsOf(rs[n].response)

AllItems(rs) == ItemsUpTo(rs, Len(rs))

IsPrefix(p, q) == Len(p) <= Len(q) /\ SubSeq(q, 1, Len(p)) = p

\* The `next` of page k resolves against the base to another origin.
NextLeavesOrigin(k) ==
    /\ HasNext(k)
    /\ LET url == ParseUrl(results[k].outcome.next, BaseUrl)
       IN  url.valid /\ Origin(url) # Origin(BaseUrl)

\* C1: every URL handed to the transport has the scheme, host and port of the
\* base URL; a page whose `next` resolves to another origin is the last page
\* fetched, no fetch is issued for that link, and the iteration cannot end
\* without an error.
C1_SameOrigin ==
    /\ \A k \in 1..Len(fetchLog) :
        /\ fetchLog[k].scheme = BaseUrl.scheme
        /\ fetchLog[k].host = BaseUrl.host
        /\ fetchLog[k].port = BaseUrl.port
    /\ \A k \in 1..Len(results) :
        NextLeavesOrigin(k) =>
            /\ Len(fetchLog) = k
            /\ gen # "awaitingFetch"
            /\ Finished => error \in {"origin", "overrun"}

\* A same-origin absolute cursor was followed, then a cross-origin one refused.
C1_Witness ==
    /\ Finished
    /\ error = "origin"
    /\ Len(fetchLog) = 2
    /\ fetchLog[2].path = NextAbsolute.path
    /\ NextLeavesOrigin(2)

\* C2 as stated: at most maxPages fetches; the iteration completes without error
\* iff one of the first maxPages pages reports no next link, and otherwise it
\* fails with the pagination-overrun error.
C2_Original ==
    /\ Len(fetchLog) <= Limit
    /\ Finished =>
        /\ error = "none" <=> \E k \in 1..Len(results) : k <= Limit /\ IsPage(k) /\ ~HasNext(k)
        /\ error # "none" => error = "overrun"

\* C2, amended: at most maxPages fetches; the iteration completes without error
\* iff one of the first maxPages pages reports no next link; it fails with the
\* pagination-overrun error iff maxPages pages were fetched and every one of
\* them reported a next link; any other failure is the error of the last fetch
\* or of the guard on the last page's next link.
C2_Ceiling ==
    /\ Len(fetchLog) <= Limit
    /\ Finished =>
        /\ error = "none" <=> \E k \in 1..Len(results) : k <= Limit /\ IsPage(k) /\ ~HasNext(k)
        /\ error = "overrun" <=>
            /\ Len(results) = (IF Limit > 0 THEN Limit ELSE 0)
            /\ \A k \in 1..Len(results) : HasNext(k)
        /\ error \notin {"none", "overrun"} =>
            /\ Len(results) > 0
            /\ LET last == results[Len(results)].outcome
               IN  \/ last.error = error
                   \/ /\ last.error = "none"
                      /\ last.next # NoUrl
                      /\ buildRoutesUrl(last.next, base).error = error

\* maxPages = 3 and three pages with a next link: the overrun, after 3 fetches.
C2_Witness ==
    /\ Finished
    /\ error = "overrun"
    /\ maxPages = Num(3)
    /\ Len(fetchLog) = 3
    /\ Len(results) = 3

\* C3: collectRoutes returns the normalized items of page 1, page 2, ... in that
\* order, each page's items in their order; every page is fetched once, a page
\* is fetched only after the response to the one before, and at most one fetch
\* is outstanding.
C3_CollectInOrder ==
    /\ outstanding \in {0, 1}
    /\ Len(fetchLog) = Len(results) + outstanding
    /\ outstanding = 1 <=> gen = "awaitingFetch"
    /\ IsPrefix(delivered, AllItems(results))
    /\ (consumer = "collectRoutes" /\ Finished /\ error = "none") =>
        /\ delivered = AllItems(results)
        /\ ~HasNext(Len(results))
        /\ \A k \in 1..(Len(results) - 1) : HasNext(k)

\* Pages of sizes 2, 2, 1: five items in their original order.
C3_Witness ==
    /\ consumer = "collectRoutes"
    /\ Finished
    /\ error = "none"
    /\ Len(results) = 3
    /\ Len(fetchLog) = 3
    /\ delivered = <<normalizeRoutesItem(ItemA), normalizeRoutesItem(ItemB),
                     normalizeRoutesItem(ItemA), normalizeRoutesItem(ItemB),
                     normalizeRoutesItem(ItemC)>>

\* A fetch is issued in this step.
IssuesFetch == Len(fetchLog') > Len(fetchLog)

\* C4: once the consumer abandoned the sequence no fetch is issued; a fetch is
\* issued only when every item of every page received so far was delivered and
\* a next() call of the consumer is waiting for one more.
C4_NoFetchAfterAbandon ==
    /\ [](gen = "awaitingFetch" =>
            /\ demand
            /\ ~abandoned
            /\ delivered = AllItems(results))
    /\ [][/\ abandoned => ~IssuesFetch
          /\ IssuesFetch => /\ demand'
                            /\ delivered = AllItems(results')]_vars

\* The consumer abandoned a page with a next link after one of its two items:
\* the second page was never fetched.
C4_Witness ==
    /\ abandoned
    /\ Len(results) = 1
    /\ HasNext(1)
    /\ Len(ItemsOf(results[1].response)) = 2
    /\ Len(delivered) = 1
    /\ Len(fetchLog) = 1

\* C6 as stated: a successful response whose body is not a JSON object, or whose
\* `data` is not a sequence, makes fetchRoutesPage fail with a feed-format error.
C6_Original ==
    \A k \in 1..Len(results) :
        LET res == results[k].response
        IN  (res.ok /\ res.json # "invalid"
                /\ (res.json # "object" \/ res.data.t # "array"))
            => results[k].outcome.error = "format"

\* The guard refused the cursor of page k: the page arrived with a next link,
\* it is the last one, and the generator threw something else than the overrun.
GuardRefused(k) ==
    /\ Finished
    /\ Len(results) = k
    /\ HasNext(k)
    /\ error # "overrun"

\* C11 as stated: against an http(s) base, a cursor whose resolved scheme is not
\* http or https is refused with the unsupported-scheme error, an http(s) cursor
\* on another host with the origin-mismatch error, and a same-origin http(s)
\* cursor resolves and is the URL fetched.
C11_Original ==
    \A k \in 1..Len(results) :
        HasNext(k) =>
            LET url == ParseUrl(results[k].outcome.next, BaseUrl)
                http == url.scheme \in {"http", "https"}
            IN  /\ (GuardRefused(k) /\ url.valid /\ ~http) => error = "protocol"
                /\ (GuardRefused(k) /\ url.valid /\ http /\ url.host # BaseUrl.host)
                        => error = "origin"
                /\ (url.valid /\ http /\ Origin(url) = Origin(BaseUrl)) =>
                        /\ ~GuardRefused(k)
                        /\ Len(fetchLog) > k => fetchLog[k + 1] = url

\* The fetch of page k failed: fetchRoutesPage threw instead of returning a page.
FetchFailed(k) == results[k].outcome.error # "none"

\* C12: when the fetch of page k fails (a non-success status, a rejected
\* transport call, a body that is no JSON or no JSON object), the sequence has
\* delivered exactly the items of pages 1..k-1 and ends with that error; the
\* failed fetch is the k-th and last one issued, one fetch per page before it:
\* it is not issued again and no later page is fetched.
C12_FailureEnds ==
    \A k \in 1..Len(results) :
        FetchFailed(k) =>
            /\ k = Len(results)
            /\ \A j \in 1..(k - 1) : HasNext(j)
            /\ Len(fetchLog) = k
            /\ outstanding = 0
            /\ Finished
            /\ error = results[k].outcome.error
            /\ delivered = ItemsUpTo(results, k - 1)

\* Two pages were delivered in full, then the third fetch met a non-success
\* status: three fetches, the items of pages 1 and 2, and the request error.
C12_Witness ==
    /\ Len(results) = 3
    /\ FetchFailed(3)
    /\ ~results[3].response.ok
    /\ results[3].response # Rejection
    /\ error = "request"
    /\ Len(fetchLog) = 3
    /\ Len(delivered) = 4
    /\ delivered = AllItems(results)

(***************************************************************************)
(* normalizeRoutesItem on its own: one call per raw item                   *)
(***************************************************************************)
\* The routes feed at rest, for the specifications of single calls.
RoutesIdle ==
    /\ base = UrlString("abs", "https", CmsHost, "", "")
    /\ maxPages = Undefined
    /\ consumer = "manual"
    /\ gen = "suspendedStart"
    /\ error = "none"
    /\ i = 0
    /\ pageUrl = NoUrl
    /\ page = NoPage
    /\ idx = 0
    /\ demand = FALSE
    /\ abandoned = FALSE
    /\ delivered = <<>>
    /\ fetchLog = <<>>
    /\ results = <<>>
    /\ outstanding = 0

\* A call of function fn with argument arg, and its result once it returned.
Call(fn, arg) == [fn |-> fn, arg |-> arg, done |-> FALSE, result |-> Null]

Returned(fn) == call.fn = fn /\ call.done

PathValues ==
    {Undefined, Null, Num(1), Str(<<>>), Str(<<" ">>), Str(<<"/">>), Str(<<"/", "a">>),
     Str(<<"a">>), Str(<<" ", "/", "a">>)}
KindValues ==
    {Undefined, Null, Num(1), Str(EntityKind), Str(ViewKind), Str(<<"n", "o", "d", "e">>)}
UrlValues ==
    {Undefined, Null, Num(0), Str(<<>>), Str(<<" ">>), Str(<<"/", "j">>)}

RawItems ==
    {RawItem(p, k, j, d) : p \in PathValues, k \in KindValues, j \in UrlValues, d \in UrlValues}
    \cup {Undefined, Null, Num(1), Str(<<"/", "a">>)}

InitNormalize ==
    /\ RoutesIdle
    /\ call \in {Call("normalizeRoutesItem", v) : v \in RawItems}

CallNormalizeRoutesItem ==
    /\ call.fn = "normalizeRoutesItem"
    /\ ~call.done
    /\ call' = [call EXCEPT !.done = TRUE, !.result = normalizeRoutesItem(call.arg)]
    /\ UNCHANGED routeVars

NextNormalize == CallNormalizeRoutesItem

SpecNormalize == InitNormalize /\ [][NextNormalize]_vars

\* The shape the claim accepts: a path that is a non-empty string starting with
\* "/", a kind of entity or view, the URL field of that kind a non-empty string,
\* and the other URL field absent or null.  A string of whitespace only counts
\* as empty here, as it does in the code.
Accepted(v) ==
    /\ v.t = "object"
    /\ IsNonBlankString(v.path) /\ StartsWith(v.path.s, <<"/">>)
    /\ \/ /\ v.kind = Str(EntityKind)
          /\ IsNonBlankString(v.jsonapi_url)
          /\ v.data_url \in {Undefined, Null}
       \/ /\ v.kind = Str(ViewKind)
          /\ IsNonBlankString(v.data_url)
          /\ v.jsonapi_url \in {Undefined, Null}

\* C5 as stated: normalizeRoutesItem keeps a raw item iff it has the accepted
\* shape, and returns null for every other one.
C5_Original ==
    Returned("normalizeRoutesItem") => (call.result # Null <=> Accepted(call.arg))

(***************************************************************************)
(* File URLs (url.ts)                                                      *)
(***************************************************************************)
HttpPrefix == <<"h", "t", "t", "p", ":", "/", "/">>
HttpsPrefix == <<"h", "t", "t", "p", "s", ":", "/", "/">>
DataPrefix == <<"d", "a", "t", "a", ":">>
HttpsColon == <<"h", "t", "t", "p", "s", ":">>
StylesMarker == <<"/", "s", "t", "y", "l", "e", "s", "/">>
FilesMarker == <<"/", "f", "i", "l", "e", "s", "/">>

\* JavaScript truthiness: undefined, null, "" and 0 are falsy.
Truthy(v) ==
    CASE v.t \in {"undefined", "null"} -> FALSE
      [] v.t = "string" -> v.s # <<>>
      [] v.t = "number" -> v.n # 0
      [] OTHER -> TRUE

\* a || b
Or(a, b) == IF Truthy(a) THEN a ELSE b

\* transport.js, getDrupalBaseUrlFromOptions: the configured base URL, which the
\* configuration boundary requires to be an absolute http(s) URL.
getDrupalBaseUrlFromOptions(options) == options.baseUrl

\* resolveFileUrl joining the path to nothing.
resolveFileUrl_NoBase(url, options) ==
    IF ~Truthy(url) THEN Null
    ELSE IF StartsWith(url.s, HttpPrefix) \/ StartsWith(url.s, HttpsPrefix) THEN url
    ELSE IF StartsWith(url.s, DataPrefix) THEN url
    ELSE IF StartsWith(url.s, <<"/", "/">>) THEN Str(HttpsColon \o url.s)
    ELSE url

\* url.ts 15-38
resolveFileUrl(url, options) ==
    IF ~Truthy(url) THEN Null
    ELSE IF StartsWith(url.s, HttpPrefix) \/ StartsWith(url.s, HttpsPrefix) THEN url
    ELSE IF StartsWith(url.s, DataPrefix) THEN url
    ELSE IF StartsWith(url.s, <<"/", "/">>) THEN Str(HttpsColon \o url.s)
    ELSE LET b == getDrupalBaseUrlFromOptions(options)
             path == IF StartsWith(url.s, <<"/">>) THEN url.s ELSE <<"/">> \o url.s
         IN  Str(b \o path)

\* The attributes of a resource that the code reads: name and
\* field_media_oembed_video of a media resource, the rest of a file resource;
\* hasUri tells whether attributes.uri is there at all.
Attributes(name, oembed, hasUri, uriUrl, uriValue, url, filename, filemime, width, height, styled) ==
    [t |-> "object", name |-> name, field_media_oembed_video |-> oembed,
     hasUri |-> hasUri, uriUrl |-> uriUrl, uriValue |-> uriValue,
     url |-> url, filename |-> filename, filemime |-> filemime,
     width |-> width, height |-> height, image_style_uri |-> styled]

\* url.ts 40-55.  file is a resource or undefined.
getFileUrl(file, options) ==
    IF file.t # "resource" THEN Null
    ELSE IF file.attributes.t # "object" THEN Null
    ELSE LET a == file.attributes
             uriUrl == IF a.hasUri THEN a.uriUrl ELSE Undefined
             uriValue == IF a.hasUri THEN a.uriValue ELSE Undefined
         IN  resolveFileUrl(Or(Or(uriUrl, uriValue), a.url), options)

\* The leftmost match of /\/styles\/[^/]+\// in s: its position (from 0) and
\* length, with position -1 when there is none.
RunLength(s, from) ==
    LET stops == {k \in from..Len(s) : s[k] = "/"}
    IN  IF stops = {} THEN Len(s) + 1 - from
        ELSE (CHOOSE k \in stops : \A m \in stops : k <= m) - from

StyleSegmentMatch(s) ==
    LET n == Len(StylesMarker)
        hits == {k \in 0..(Len(s) - n) :
                    /\ SubSeq(s, k + 1, k + n) = StylesMarker
                    /\ RunLength(s, k + n + 1) >= 1
                    /\ k + n + RunLength(s, k + n + 1) < Len(s)}
    IN  IF hits = {} THEN [pos |-> -1, len |-> 0]
        ELSE LET k == CHOOSE h \in hits : \A m \in hits : h <= m
             IN  [pos |-> k, len |-> n + RunLength(s, k + n + 1) + 1]

\* GetSubstitution of String.prototype.replace for a pattern without groups:
\* $$ is a dollar, $& the match, $` the text before it and $' the text after it.
RECURSIVE GetSubstitution(_, _, _, _)
GetSubstitution(template, matched, before, after) ==
    IF template = <<>> THEN <<>>
    ELSE IF Head(template) = "$" /\ Len(template) >= 2 THEN
        LET c == template[2]
            rest == GetSubstitution(SubSeq(template, 3, Len(template)), matched, before, after)
        IN  CASE c = "$" -> <<"$">> \o rest
              [] c = "&" -> matched \o rest
              [] c = "`" -> before \o rest
              [] c = "'" -> after \o rest
              [] OTHER -> <<"$">> \o GetSubstitution(Tail(template), matched, before, after)
    ELSE <<Head(template)>> \o GetSubstitution(Tail(template), matched, before, after)

\* resolved.replace(/\/styles\/[^/]+\//, replacement), url.ts 67
ReplaceStyleSegment(s, replacement) ==
    LET m == StyleSegmentMatch(s)
    IN  IF m.pos = -1 THEN s
        ELSE LET before == SliceTo(s, m.pos)
                 matched == SubSeq(s, m.pos + 1, m.pos + m.len)
                 after == SliceFrom(s, m.pos + m.len)
             IN  before \o GetSubstitution(replacement, matched, before, after) \o after

\* url.ts 60-79
getImageStyleUrl(originalUrl, style, options) ==
    LET r == resolveFileUrl(Str(originalUrl), options)
    IN  IF r = Null THEN originalUrl
        ELSE IF Includes(r.s, StylesMarker)
            THEN ReplaceStyleSegment(r.s, StylesMarker \o style \o <<"/">>)
        ELSE LET markerIndex == IndexOf(r.s, FilesMarker)
             IN  IF markerIndex # -1
                    THEN LET basePath == SliceTo(r.s, markerIndex + Len(FilesMarker))
                             filePath == SliceFrom(r.s, markerIndex + Len(FilesMarker))
                         IN  basePath \o <<"s", "t", "y", "l", "e", "s", "/">> \o style \o <<"/", "p", "u", "b", "l", "i", "c", "/">> \o filePath
                    ELSE r.s

(***************************************************************************)
(* getImageStyleUrl applied twice, and once with the second style          *)
(***************************************************************************)
\* The configured base URL of the single calls.
BaseString == <<"h", "t", "t", "p", "s", ":", "/", "/", "h">>
Options == [baseUrl |-> BaseString]

StyleUrls ==
    {<<"h", "t", "t", "p", "s", ":", "/", "/", "h", "/", "s", "/", "f", "i", "l", "e", "s", "/", "a", ".", "p", "n", "g">>,
     <<"h", "t", "t", "p", ":", "/", "/", "h", "/", "f", "i", "l", "e", "s", "/", "a">>,
     <<"/", "s", "/", "f", "i", "l", "e", "s", "/", "a">>,
     <<"/", "/", "c", "/", "f", "i", "l", "e", "s", "/", "a">>,
     <<"d", "a", "t", "a", ":", "/", "f", "i", "l", "e", "s", "/", "a">>,
     <<"h", "t", "t", "p", "s", ":", "/", "/", "h", "/", "f", "i", "l", "e", "s", "/", "a", "/", "f", "i", "l", "e", "s", "/", "b">>,
     <<"s", "t", "y", "l", "e", "s", "/", "f", "i", "l", "e", "s", "/", "a">>,
     <<"s", "/", "f", "i", "l", "e", "s", "/", "a">>,
     <<"h", "t", "t", "p", "s", ":", "/", "/", "h", "/", "s", "/", "f", "i", "l", "e", "s", "/", "s", "t", "y", "l", "e", "s", "/", "x", "/", "p", "u", "b", "l", "i", "c", "/", "a">>,
     <<"h", "t", "t", "p", "s", ":", "/", "/", "h", "/", "s", "/", "a">>,
     <<>>}

StyleNames == {<<"t", "h", "u", "m", "b", "n", "a", "i", "l">>, <<"l", "g">>, <<"$", "&">>, <<"$", "$">>, <<"a", "$", "'">>}

InitStyle ==
    /\ RoutesIdle
    /\ call \in {[fn |-> "getImageStyleUrl",
                  arg |-> [url |-> u, a |-> a, b |-> b, options |-> Options],
                  done |-> FALSE,
                  result |-> [first |-> Undefined, second |-> Undefined, direct |-> Undefined]] :
                    u \in StyleUrls, a \in StyleNames, b \in StyleNames}

StyleDone(r) == r.first # Undefined /\ r.second # Undefined /\ r.direct # Undefined

\* getImageStyleUrl(u, a)
ApplyStyleFirst ==
    /\ call.fn = "getImageStyleUrl"
    /\ call.result.first = Undefined
    /\ LET r == [call.result EXCEPT
                    !.first = Str(getImageStyleUrl(call.arg.url, call.arg.a, call.arg.options))]
       IN  call' = [call EXCEPT !.result = r, !.done = StyleDone(r)]
    /\ UNCHANGED routeVars

\* getImageStyleUrl(getImageStyleUrl(u, a), b)
ApplyStyleAgain ==
    /\ call.fn = "getImageStyleUrl"
    /\ call.result.first # Undefined
    /\ call.result.second = Undefined
    /\ LET r == [call.result EXCEPT
                    !.second = Str(getImageStyleUrl(call.result.first.s, call.arg.b,
                                                    call.arg.options))]
       IN  call' = [call EXCEPT !.result = r, !.done = StyleDone(r)]
    /\ UNCHANGED routeVars

\* getImageStyleUrl(u, b)
ApplyStyleDirect ==
    /\ call.fn = "getImageStyleUrl"
    /\ call.result.direct = Undefined
    /\ LET r == [call.result EXCEPT
                    !.direct = Str(getImageStyleUrl(call.arg.url, call.arg.b, call.arg.options))]
       IN  call' = [call EXCEPT !.result = r, !.done = StyleDone(r)]
    /\ UNCHANGED routeVars

NextStyle == ApplyStyleFirst \/ ApplyStyleAgain \/ ApplyStyleDirect

SpecStyle == InitStyle /\ [][NextStyle]_vars

\* A style name the claim is about: not empty and without "/".
IsStyleName(x) == x # <<>> /\ ~Includes(x, <<"/">>)

\* C10 as stated: for a URL with a /files/ marker and no /styles/ segment and
\* style names a and b, applying style a and then style b gives the URL that
\* applying style b alone gives.
C10_Original ==
    (/\ Returned("getImageStyleUrl")
     /\ Includes(call.arg.url, FilesMarker)
     /\ ~Includes(call.arg.url, StylesMarker)
     /\ IsStyleName(call.arg.a)
     /\ IsStyleName(call.arg.b))
    => call.result.second = call.result.direct

(***************************************************************************)
(* Resources and relationships (types.ts, media.ts)                        *)
(***************************************************************************)
\* types.ts 70-76.  attributes and relationships are objects or undefined.
Resource(type, id, attributes, relationships) ==
    [t |-> "resource", type |-> type, id |-> id, attributes |-> attributes,
     relationships |-> relationships]

\* A reference of a relationship, with the meta.alt and meta.title it carries.
Ref(type, id, alt, title) == [type |-> type, id |-> id, alt |-> alt, title |-> title]

\* types.ts 78-81.  shape tells what `data` is: "null", "one" reference or
\* "many" (an array of references).
Relationship(shape, refs) == [t |-> "object", shape |-> shape, refs |-> refs]

RelNames ==
    {"field_image", "field_media_image", "field_media", "field_thumbnail",
     "field_hero_image", "field_media_video_file", "field_media_file",
     "field_media_document", "field_media_audio_file"}

\* relationships?.[name]
GetRel(resource, name) ==
    IF resource.relationships.t = "object" THEN resource.relationships.f[name] ELSE Undefined

\* The relationships object holding the relationships of rels, a function from
\* some names to relationships.
Relationships(rels) ==
    [t |-> "object",
     f |-> [n \in RelNames |-> IF n \in DOMAIN rels THEN rels[n] ELSE Undefined]]

\* media.ts 22-28.  included is [t |-> "array", items] or undefined.
findIncluded(included, type, id) ==
    IF included.t # "array" THEN Undefined
    ELSE LET hits == {k \in 1..Len(included.items) :
                        included.items[k].type = type /\ included.items[k].id = id}
         IN  IF hits = {} THEN Undefined
             ELSE included.items[CHOOSE k \in hits : \A m \in hits : k <= m]

\* media.ts 30-38
findIncludedByRelationship(included, relationship) ==
    IF relationship.t # "object" \/ relationship.shape # "one" THEN Undefined
    ELSE findIncluded(included, relationship.refs[1].type, relationship.refs[1].id)

RECURSIVE ResolveRefs(_, _)
ResolveRefs(included, refs) ==
    IF refs = <<>> THEN <<>>
    ELSE LET item == findIncluded(included, Head(refs).type, Head(refs).id)
         IN  (IF item = Undefined THEN <<>> ELSE <<item>>)
             \o ResolveRefs(included, Tail(refs))

\* media.ts 40-53
findIncludedByRelationshipMultiple(included, relationship) ==
    IF relationship.t # "object" \/ relationship.shape = "null" THEN <<>>
    ELSE ResolveRefs(included, relationship.refs)

ImageData(src, alt, width, height, title) ==
    [t |-> "object", src |-> src, alt |-> alt, width |-> width, height |-> height,
     title |-> title]

\* media.ts 55-73
extractImageFromFile(file, options) ==
    IF file.t # "resource" THEN Null
    ELSE LET url == getFileUrl(file, options)
         IN  IF url = Null THEN Null
             ELSE LET attrs == file.attributes
                      styled == Truthy(attrs.image_style_uri)
                  IN  ImageData(url, Or(attrs.filename, Str(<<>>)),
                                IF styled THEN Undefined ELSE attrs.width,
                                IF styled THEN Undefined ELSE attrs.height,
                                Undefined)

\* media.ts 75-85
getRelationshipMetaString(relationship, key) ==
    IF relationship.t # "object" \/ relationship.shape # "one" THEN Undefined
    ELSE LET value == IF key = "alt" THEN relationship.refs[1].alt
                      ELSE relationship.refs[1].title
         IN  IF IsNonBlankString(value) THEN value ELSE Undefined

(***************************************************************************)
(* Embed URLs (media.ts, getVideoEmbedUrl)                                 *)
(***************************************************************************)
Digits == {"0", "1", "2", "3", "4", "5", "6", "7", "8", "9"}
\* [a-zA-Z0-9_-]
IdChars == {"a", "b", "c", "d", "e", "f", "g", "h", "i", "j", "k", "l", "m", "n", "o", "p", "q", "r", "s", "t", "u", "v", "w", "x", "y", "z", "A", "B", "C", "D", "E", "F", "G", "H", "I", "J", "K", "L", "M", "N", "O", "P", "Q", "R", "S", "T", "U", "V", "W", "X", "Y", "Z", "0", "1", "2", "3", "4", "5", "6", "7", "8", "9", "_", "-"}

\* The longest run of characters of `set` in s from position `from` (from 1).
RECURSIVE Run(_, _, _)
Run(s, from, set) ==
    IF from > Len(s) \/ s[from] \notin set THEN <<>>
    ELSE <<s[from]>> \o Run(s, from + 1, set)

\* The matches of one of the literals followed by at least one character of
\* `set`: the leftmost one's captured run, or <<>> when nothing matches.
MatchCapture(s, literals, set) ==
    LET hits == {<<k, l>> \in (0..Len(s)) \X literals :
                    /\ k + Len(l) < Len(s)
                    /\ SubSeq(s, k + 1, k + Len(l)) = l
                    /\ s[k + Len(l) + 1] \in set}
    IN  IF hits = {} THEN <<>>
        ELSE LET h == CHOOSE x \in hits : \A y \in hits : x[1] <= y[1]
             IN  Run(s, h[1] + Len(h[2]) + 1, set)

\* media.ts 221-233
getVideoEmbedUrl(url) ==
    LET youtube == MatchCapture(url, {<<"y", "o", "u", "t", "u", "b", "e", ".", "c", "o", "m", "/", "w", "a", "t", "c", "h", "?", "v", "=">>, <<"y", "o", "u", "t", "u", "b", "e", ".", "c", "o", "m", "/", "e", "m", "b", "e", "d", "/">>,
                                      <<"y", "o", "u", "t", "u", ".", "b", "e", "/">>}, IdChars)
        vimeo == MatchCapture(url, {<<"v", "i", "m", "e", "o", ".", "c", "o", "m", "/">>}, Digits)
    IN  IF youtube # <<>> THEN Str(<<"h", "t", "t", "p", "s", ":", "/", "/", "w", "w", "w", ".", "y", "o", "u", "t", "u", "b", "e", ".", "c", "o", "m", "/", "e", "m", "b", "e", "d", "/">> \o youtube)
        ELSE IF vimeo # <<>> THEN Str(<<"h", "t", "t", "p", "s", ":", "/", "/", "p", "l", "a", "y", "e", "r", ".", "v", "i", "m", "e", "o", ".", "c", "o", "m", "/", "v", "i", "d", "e", "o", "/">> \o vimeo)
        ELSE Undefined

(***************************************************************************)
(* Media (media.ts, extractMedia, extractMediaField, extractPrimaryImage)  *)
(***************************************************************************)
MediaPrefix == <<"m", "e", "d", "i", "a", "-", "-">>

\* String.prototype.replace with a string pattern: the first occurrence only.
ReplaceFirst(s, pattern, replacement) ==
    LET k == IndexOf(s, pattern)
    IN  IF k = -1 THEN s
        ELSE SliceTo(s, k) \o replacement \o SliceFrom(s, k + Len(pattern))

\* DrupalMediaData (media.ts 12-20); resource is the id of the media resource.
MediaData(type, name, url, image, mimeType, embedUrl, resource) ==
    [t |-> "object", type |-> type, name |-> name, url |-> url, image |-> image,
     mimeType |-> mimeType, embedUrl |-> embedUrl, resource |-> resource]

\* media.ts 87-186
extractMedia(media, included, options) ==
    IF media.t # "resource" THEN Null
    ELSE
    LET attrs == media.attributes
        name == IF attrs.t = "object" THEN Or(attrs.name, Str(<<>>)) ELSE Str(<<>>)
        mediaType == ReplaceFirst(media.type, MediaPrefix, <<>>)
        unknown == MediaData("unknown", name, Null, Undefined, Undefined, Undefined, media.id)
    IN  CASE mediaType = <<"i", "m", "a", "g", "e">> ->
                LET fileRelationship == GetRel(media, "field_media_image")
                    file == findIncludedByRelationship(included, fileRelationship)
                    imageData == extractImageFromFile(file, options)
                IN  IF file = Undefined \/ imageData = Null
                        THEN [unknown EXCEPT !.type = "image"]
                        ELSE LET alt == getRelationshipMetaString(fileRelationship, "alt")
                                 title == getRelationshipMetaString(fileRelationship, "title")
                             IN  [unknown EXCEPT
                                    !.type = "image",
                                    !.url = imageData.src,
                                    !.image = [imageData EXCEPT
                                                !.alt = Or(Or(alt, imageData.alt), name),
                                                !.title = Or(title, imageData.title)]]
          [] mediaType = <<"v", "i", "d", "e", "o">> ->
                LET file == findIncludedByRelationship(
                                included, GetRel(media, "field_media_video_file"))
                IN  IF file = Undefined THEN [unknown EXCEPT !.type = "video"]
                    ELSE [unknown EXCEPT
                            !.type = "video",
                            !.url = getFileUrl(file, options),
                            !.mimeType = IF file.attributes.t = "object"
                                            THEN Or(file.attributes.filemime, Str(<<"v", "i", "d", "e", "o", "/", "m", "p", "4">>))
                                            ELSE Str(<<"v", "i", "d", "e", "o", "/", "m", "p", "4">>)]
          [] mediaType = <<"r", "e", "m", "o", "t", "e", "_", "v", "i", "d", "e", "o">> ->
                LET videoUrl == IF attrs.t = "object" THEN attrs.field_media_oembed_video
                                ELSE Undefined
                IN  [unknown EXCEPT
                        !.type = "remote_video",
                        !.url = Or(videoUrl, Null),
                        !.embedUrl = IF Truthy(videoUrl) THEN getVideoEmbedUrl(videoUrl.s)
                                     ELSE Undefined]
          [] mediaType \in {<<"f", "i", "l", "e">>, <<"d", "o", "c", "u", "m", "e", "n", "t">>} ->
                LET first == GetRel(media, "field_media_file")
                    fileRelationship == IF first # Undefined THEN first
                                        ELSE GetRel(media, "field_media_document")
                    file == findIncludedByRelationship(included, fileRelationship)
                IN  IF file = Undefined THEN [unknown EXCEPT !.type = "file"]
                    ELSE [unknown EXCEPT
                            !.type = "file",
                            !.url = getFileUrl(file, options),
                            !.mimeType = IF file.attributes.t = "object"
                                            THEN file.attributes.filemime ELSE Undefined]
          [] mediaType = <<"a", "u", "d", "i", "o">> ->
                LET file == findIncludedByRelationship(
                                included, GetRel(media, "field_media_audio_file"))
                IN  IF file = Undefined THEN [unknown EXCEPT !.type = "audio"]
                    ELSE [unknown EXCEPT
                            !.type = "audio",
                            !.url = getFileUrl(file, options),
                            !.mimeType = IF file.attributes.t = "object"
                                            THEN Or(file.attributes.filemime, Str(<<"a", "u", "d", "i", "o", "/", "m", "p", "e", "g">>))
                                            ELSE Str(<<"a", "u", "d", "i", "o", "/", "m", "p", "e", "g">>)]
          [] OTHER -> unknown

RECURSIVE ExtractAll(_, _, _)
ExtractAll(resources, included, options) ==
    IF resources = <<>> THEN <<>>
    ELSE LET m == extractMedia(Head(resources), included, options)
         IN  (IF m = Null THEN <<>> ELSE <<m>>) \o ExtractAll(Tail(resources), included, options)

\* media.ts 188-205
extractMediaField(entity, fieldName, included, options) ==
    LET relationship == GetRel(entity, fieldName)
    IN  IF relationship = Undefined THEN <<>>
        ELSE ExtractAll(findIncludedByRelationshipMultiple(included, relationship),
                        included, options)

\* media.ts 208
CommonFields ==
    <<"field_image", "field_media_image", "field_media", "field_thumbnail",
      "field_hero_image">>

\* Array.prototype.find(m => m.type === "image"), media.ts 212
FindImage(media) ==
    LET hits == {k \in 1..Len(media) : media[k].type = "image"}
    IN  IF hits = {} THEN Undefined
        ELSE media[CHOOSE k \in hits : \A m \in hits : k <= m]

\* media.ts 210-218: the loop from the n-th common field on.
RECURSIVE PrimaryImageFrom(_, _, _, _)
PrimaryImageFrom(n, entity, included, options) ==
    IF n > Len(CommonFields) THEN Null
    ELSE LET imageMedia == FindImage(extractMediaField(entity, CommonFields[n], included,
                                                       options))
         IN  IF imageMedia # Undefined /\ imageMedia.image # Undefined
                THEN imageMedia.image
                ELSE PrimaryImageFrom(n + 1, entity, included, options)

\* media.ts 207-219
extractPrimaryImage(entity, included, options) ==
    PrimaryImageFrom(1, entity, included, options)

(***************************************************************************)
(* The documents the media functions are called on                         *)
(***************************************************************************)
FileType == <<"f", "i", "l", "e", "-", "-", "f", "i", "l", "e">>

\* A file resource with the given attributes.
File(id, attributes) == Resource(FileType, id, attributes, Undefined)

FileAttributes(hasUri, uriUrl, uriValue, url, filename, filemime, styled) ==
    Attributes(Undefined, Undefined, hasUri, uriUrl, uriValue, url, filename, filemime,
               Num(4), Num(3), styled)

RawFileUrls ==
    {<<"h", "t", "t", "p", "s", ":", "/", "/", "c", "/", "a", ".", "p", "n", "g">>, <<"h", "t", "t", "p", ":", "/", "/", "c", "/", "a">>, <<"d", "a", "t", "a", ":", "x">>, <<"/", "/", "c", "/", "a">>, <<"/", "s", "/", "f", "i", "l", "e", "s", "/", "a">>, <<"s", "/", "a">>}

FileAttributeValues ==
    {FileAttributes(TRUE, Str(u), Undefined, Undefined, Str(<<"a", ".", "p", "n", "g">>), mime, Undefined) :
        u \in RawFileUrls, mime \in {Undefined, Str(<<"x", "/", "y">>)}}
    \cup {FileAttributes(TRUE, Str(<<>>), Str(<<"p", "u", "b", "l", "i", "c", ":", "/", "/", "a">>), Undefined, Undefined, Undefined,
                         [t |-> "object"]),
          FileAttributes(FALSE, Undefined, Undefined, Str(<<"/", "s", "/", "a">>), Undefined, Undefined,
                         Undefined),
          FileAttributes(FALSE, Undefined, Undefined, Undefined, Undefined, Undefined,
                         Undefined),
          Undefined}

MediaTypes ==
    {<<"m", "e", "d", "i", "a", "-", "-", "i", "m", "a", "g", "e">>, <<"m", "e", "d", "i", "a", "-", "-", "v", "i", "d", "e", "o">>, <<"m", "e", "d", "i", "a", "-", "-", "r", "e", "m", "o", "t", "e", "_", "v", "i", "d", "e", "o">>, <<"m", "e", "d", "i", "a", "-", "-", "f", "i", "l", "e">>,
     <<"m", "e", "d", "i", "a", "-", "-", "d", "o", "c", "u", "m", "e", "n", "t">>, <<"m", "e", "d", "i", "a", "-", "-", "a", "u", "d", "i", "o">>, <<"m", "e", "d", "i", "a", "-", "-", "g", "a", "l", "l", "e", "r", "y">>, <<"n", "o", "d", "e", "-", "-", "a", "r", "t", "i", "c", "l", "e">>, <<"i", "m", "a", "g", "e">>,
     <<"r", "e", "m", "o", "t", "e", "_", "m", "e", "d", "i", "a", "-", "-", "v", "i", "d", "e", "o">>, <<"m", "e", "d", "i", "a", "-", "-", "m", "e", "d", "i", "a", "-", "-", "i", "m", "a", "g", "e">>}

MediaRelNames ==
    {"field_media_image", "field_media_video_file", "field_media_file",
     "field_media_document", "field_media_audio_file"}

OembedValues ==
    {Undefined, Str(<<>>), Str(<<"h", "t", "t", "p", "s", ":", "/", "/", "y", "o", "u", "t", "u", ".", "b", "e", "/", "a", "1">>), Str(<<"h", "t", "t", "p", "s", ":", "/", "/", "w", "w", "w", ".", "y", "o", "u", "t", "u", "b", "e", ".", "c", "o", "m", "/", "w", "a", "t", "c", "h", "?", "v", "=", "b", "_", "2">>),
     Str(<<"h", "t", "t", "p", "s", ":", "/", "/", "v", "i", "m", "e", "o", ".", "c", "o", "m", "/", "1", "2">>), Str(<<"h", "t", "t", "p", "s", ":", "/", "/", "x", ".", "i", "o", "/", "v">>), Str(<<"/", "v", "/", "1">>), Str(<<"v">>)}

MediaAttributes(name, oembed) ==
    Attributes(name, oembed, FALSE, Undefined, Undefined, Undefined, Undefined, Undefined,
               Undefined, Undefined, Undefined)

Included(items) == [t |-> "array", items |-> items]

FileRef(id) == Ref(FileType, id, Undefined, Undefined)

\* The arguments of extractMedia.
MediaArgs(media, included) == [media |-> media, included |-> included, options |-> Options]

MediaScenarios ==
    \* a media resource of each type whose relationship `n` names an included file
    {MediaArgs(Resource(ty, "m1", MediaAttributes(Str(<<"N">>), Undefined),
                        Relationships([x \in {n} |-> Relationship("one", <<FileRef("f1")>>)])),
               Included(<<File("f1", fa)>>)) :
        ty \in MediaTypes, n \in MediaRelNames, fa \in FileAttributeValues}
    \* relationships that resolve to nothing
    \cup {MediaArgs(Resource(ty, "m1", MediaAttributes(Str(<<"N">>), Undefined),
                             Relationships([x \in {n} |-> rel])),
                    inc) :
            ty \in MediaTypes, n \in MediaRelNames,
            rel \in {Relationship("null", <<>>), Relationship("many", <<FileRef("f1")>>),
                     Relationship("one", <<FileRef("f2")>>)},
            inc \in {Included(<<File("f1", FileAttributes(TRUE, Str(<<"/", "s", "/", "a">>), Undefined,
                                                         Undefined, Undefined, Undefined,
                                                         Undefined))>>),
                     Undefined}}
    \* media without relationships, with an oEmbed URL or without attributes
    \cup {MediaArgs(Resource(ty, "m1", at, Undefined), Included(<<>>)) :
            ty \in MediaTypes,
            at \in {MediaAttributes(Undefined, o) : o \in OembedValues} \cup {Undefined}}
    \* both file relationships of a file media
    \cup {MediaArgs(Resource(ty, "m1", MediaAttributes(Str(<<"N">>), Undefined),
                             Relationships(
                                [x \in {"field_media_file", "field_media_document"} |->
                                    IF x = "field_media_file"
                                        THEN Relationship("one", <<FileRef("f2")>>)
                                        ELSE Relationship("one", <<FileRef("f1")>>)])),
                    Included(<<File("f1", FileAttributes(TRUE, Str(<<"/", "s", "/", "a">>), Undefined,
                                                         Undefined, Undefined, Undefined,
                                                         Undefined))>>)) :
            ty \in {<<"m", "e", "d", "i", "a", "-", "-", "f", "i", "l", "e">>, <<"m", "e", "d", "i", "a", "-", "-", "d", "o", "c", "u", "m", "e", "n", "t">>}}
    \* an image whose reference carries alt and title
    \cup {MediaArgs(Resource(<<"m", "e", "d", "i", "a", "-", "-", "i", "m", "a", "g", "e">>, "m1", MediaAttributes(name, Undefined),
                             Relationships(
                                [x \in {"field_media_image"} |->
                                    Relationship("one", <<Ref(FileType, "f1", alt, title)>>)])),
                    Included(<<File("f1", FileAttributes(TRUE, Str(<<"/", "s", "/", "a">>), Undefined,
                                                         Undefined, filename, Undefined,
                                                         Undefined))>>)) :
            name \in {Undefined, Str(<<"N">>)},
            alt \in {Undefined, Str(<<" ">>), Str(<<"A", "l", "t">>)},
            title \in {Undefined, Str(<<"T", "i">>)},
            filename \in {Undefined, Str(<<"a", ".", "p", "n", "g">>)}}
    \* no media resource
    \cup {MediaArgs(Undefined, Included(<<>>))}

\* The media resources an entity refers to: two images with a file, an image
\* whose file is not included, and a video.
ImageMedia(id, fileId) ==
    Resource(<<"m", "e", "d", "i", "a", "-", "-", "i", "m", "a", "g", "e">>, id, MediaAttributes(Str(<<"N">>), Undefined),
             Relationships([x \in {"field_media_image"} |->
                                Relationship("one", <<FileRef(fileId)>>)]))

PoolIncluded ==
    Included(<<ImageMedia("g1", "f1"), ImageMedia("g2", "f2"), ImageMedia("b1", "f9"),
               Resource(<<"m", "e", "d", "i", "a", "-", "-", "v", "i", "d", "e", "o">>, "v1", MediaAttributes(Str(<<"N">>), Undefined),
                        Relationships([x \in {"field_media_video_file"} |->
                                            Relationship("one", <<FileRef("f1")>>)])),
               File("f1", FileAttributes(TRUE, Str(<<"/", "s", "/", "a">>), Undefined, Undefined,
                                         Str(<<"a", ".", "p", "n", "g">>), Undefined, Undefined)),
               File("f2", FileAttributes(TRUE, Str(<<"h", "t", "t", "p", "s", ":", "/", "/", "c", "/", "b">>), Undefined, Undefined,
                                         Str(<<"b", ".", "p", "n", "g">>), Undefined, Undefined))>>)

MediaRef(id) ==
    Ref(IF id = "v1" THEN <<"m", "e", "d", "i", "a", "-", "-", "v", "i", "d", "e", "o">> ELSE <<"m", "e", "d", "i", "a", "-", "-", "i", "m", "a", "g", "e">>, id, Undefined, Undefined)

\* "zz" names a media resource that is not included.
PoolIds == {"g1", "g2", "b1", "v1", "zz"}

FieldValues ==
    {Undefined, Relationship("null", <<>>)}
    \cup {Relationship("one", <<MediaRef(a)>>) : a \in PoolIds}
    \cup {Relationship("many", refs) :
            refs \in {<<>>} \cup {<<MediaRef(a)>> : a \in PoolIds}
                     \cup {<<MediaRef(a), MediaRef(b)>> : a \in PoolIds, b \in PoolIds}}

FieldPairs ==
    {<<"field_image", "field_media">>, <<"field_media_image", "field_hero_image">>,
     <<"field_thumbnail", "field_hero_image">>}

EntityType == <<"n", "o", "d", "e", "-", "-", "a", "r", "t", "i", "c", "l", "e">>

EntityScenarios ==
    {[entity |-> Resource(EntityType, "n1", Undefined,
                          Relationships([x \in {fp[1], fp[2]} |->
                                            IF x = fp[1] THEN v1 ELSE v2])),
      included |-> PoolIncluded, options |-> Options] :
        fp \in FieldPairs, v1 \in FieldValues, v2 \in FieldValues}
    \cup {[entity |-> Resource(EntityType, "n1", Undefined, Undefined),
           included |-> inc, options |-> Options] : inc \in {PoolIncluded, Undefined}}

InitMedia ==
    /\ RoutesIdle
    /\ call \in {Call("extractMedia", a) : a \in MediaScenarios}
                \cup {Call("extractPrimaryImage", a) : a \in EntityScenarios}

CallExtractMedia ==
    /\ call.fn = "extractMedia"
    /\ ~call.done
    /\ call' = [call EXCEPT
                    !.done = TRUE,
                    !.result = extractMedia(call.arg.media, call.arg.included,
                                            call.arg.options)]
    /\ UNCHANGED routeVars

CallExtractPrimaryImage ==
    /\ call.fn = "extractPrimaryImage"
    /\ ~call.done
    /\ call' = [call EXCEPT
                    !.done = TRUE,
                    !.result = extractPrimaryImage(call.arg.entity, call.arg.included,
                                                   call.arg.options)]
    /\ UNCHANGED routeVars

NextMedia == CallExtractMedia \/ CallExtractPrimaryImage

SpecMedia == InitMedia /\ [][NextMedia]_vars

(***************************************************************************)
(* Properties of the media functions                                       *)
(***************************************************************************)
\* none, or a URL that starts with http://, https:// (a rewritten //host URL
\* does) or data:
IsAbsoluteOrNone(url) ==
    \/ url = Null
    \/ /\ IsString(url)
       /\ \/ StartsWith(url.s, HttpPrefix)
          \/ StartsWith(url.s, HttpsPrefix)
          \/ StartsWith(url.s, DataPrefix)

\* The oEmbed attribute of the media resource of the call, as stored.
OembedOf(media) ==
    IF media.attributes.t = "object" THEN media.attributes.field_media_oembed_video
    ELSE Undefined

\* C7 as stated: the url of every descriptor extractMedia returns, of every
\* kind, is none or an absolute http(s) URL, a data: URL or a rewritten
\* protocol-relative URL.
C7_Original ==
    (Returned("extractMedia") /\ call.result # Null) => IsAbsoluteOrNone(call.result.url)

\* C7, amended: the url of a descriptor of kind image, video, file, audio or
\* unknown is none or an absolute http(s) URL, a data: URL or a rewritten
\* protocol-relative URL; the url of a remote_video descriptor is the oEmbed
\* attribute as stored (none when it is absent or empty), not resolved.
C7_AbsoluteUrl ==
    (Returned("extractMedia") /\ call.result # Null) =>
        IF call.result.type = "remote_video"
            THEN call.result.url = Or(OembedOf(call.arg.media), Null)
            ELSE IsAbsoluteOrNone(call.result.url)

\* An image whose file has the relative URL s/a: the url is joined to the base.
C7_Witness ==
    /\ Returned("extractMedia")
    /\ call.result # Null
    /\ call.result.type = "image"
    /\ call.arg.included.t = "array"
    /\ Len(call.arg.included.items) = 1
    /\ call.arg.included.items[1].attributes.t = "object"
    /\ call.arg.included.items[1].attributes.uriUrl = Str(<<"s", "/", "a">>)
    /\ call.result.url = Str(BaseString \o <<"/", "s", "/", "a">>)

\* Every media item the common fields resolve to, field after field.
RECURSIVE MediaOfFields(_, _, _, _)
MediaOfFields(n, entity, included, options) ==
    IF n > Len(CommonFields) THEN <<>>
    ELSE extractMediaField(entity, CommonFields[n], included, options)
         \o MediaOfFields(n + 1, entity, included, options)

\* The first item of a sequence that is an image carrying image data, or none.
FirstImageCarrier(media) ==
    LET hits == {k \in 1..Len(media) :
                    media[k].type = "image" /\ media[k].image # Undefined}
    IN  IF hits = {} THEN Null
        ELSE media[CHOOSE k \in hits : \A m \in hits : k <= m].image

\* C8 as stated: extractPrimaryImage returns the image data of the first resolved
\* media item, in field order and then reference order, that is an image and
\* carries image data, and none only when there is no such item.
C8_Original ==
    Returned("extractPrimaryImage") =>
        call.result = FirstImageCarrier(MediaOfFields(1, call.arg.entity, call.arg.included,
                                                      call.arg.options))

\* The bundle name: the type without a leading media--.
BundleOf(type) ==
    IF StartsWith(type, MediaPrefix) THEN SliceFrom(type, Len(MediaPrefix)) ELSE type

KindOfBundle(bundle) ==
    CASE bundle = <<"i", "m", "a", "g", "e">> -> "image"
      [] bundle = <<"v", "i", "d", "e", "o">> -> "video"
      [] bundle = <<"r", "e", "m", "o", "t", "e", "_", "v", "i", "d", "e", "o">> -> "remote_video"
      [] bundle = <<"a", "u", "d", "i", "o">> -> "audio"
      [] bundle \in {<<"f", "i", "l", "e">>, <<"d", "o", "c", "u", "m", "e", "n", "t">>} -> "file"
      [] OTHER -> "unknown"

\* C9 as stated: for a media resource extractMedia returns a descriptor whose
\* kind is the one of the bundle name left by stripping the media-- prefix, and
\* an unknown descriptor has no url, image, mimeType or embedUrl.
C9_Original ==
    (Returned("extractMedia") /\ call.arg.media # Undefined) =>
        /\ call.result # Null
        /\ call.result.type = KindOfBundle(BundleOf(call.arg.media.type))
        /\ call.result.type = "unknown" =>
            /\ call.result.url = Null
            /\ call.result.image = Undefined
            /\ call.result.mimeType = Undefined
            /\ call.result.embedUrl = Undefined

====
